---------------------------- MODULE Spec2Model ----------------------------
(***************************************************************************)
(* A model of kusto-kmsg-extract (src/src/main.rs): the CSV row loop of    *)
(* main, process_message, format_value_as_hex and the three regex-driven   *)
(* sub-structure transformers.                                             *)
(*                                                                         *)
(* Text is modelled by TLA+ strings (Len, SubSeq and \o act on them).      *)
(* Unsigned 64-bit values do not fit the checker's integers, so a number   *)
(* is a sequence of decimal digits, most significant first, and the        *)
(* arithmetic of parse::<u64> and of {:x} is done on such sequences.       *)
(***************************************************************************)
EXTENDS Integers, Sequences, FiniteSets, TLC

\* pc: where the run is. arg, ret: the argument and the result of the call
\* under study. headers, records: the CSV file; message_idx: the column
\* found; pos: the records read so far; stdout: the lines printed.
VARIABLES pc, arg, ret, headers, records, message_idx, pos, stdout

vars == <<pc, arg, ret, headers, records, message_idx, pos, stdout>>

mainVars == <<headers, records, message_idx, pos, stdout>>

\* The state of main when only a function is called: no file.
NoFile ==
  /\ headers = <<>>
  /\ records = <<>>
  /\ message_idx = 0
  /\ pos = 0
  /\ stdout = <<>>

-----------------------------------------------------------------------------
(* Characters                                                              *)

CharAt(s, i) == SubSeq(s, i, i)

DecDigits == "0123456789"

HexDigits == "0123456789abcdef"

AsciiDigitChars == {CharAt(DecDigits, i) : i \in 1..10}

\* A module holds ASCII only: this character stands for U+0663, ARABIC-INDIC
\* DIGIT THREE, a decimal digit (category Nd) that is not an ASCII digit.
ArabicIndicThree == "~"

IsAsciiDigit(c) == c \in AsciiDigitChars

\* \d of the regex crate is Unicode-aware: it matches every Nd character.
IsRegexDigit(c) == IsAsciiDigit(c) \/ c = ArabicIndicThree

\* The class [0-9, ] of the array pattern is ASCII.
IsArrayChar(c) == IsAsciiDigit(c) \/ c = "," \/ c = " "

DigitValue(c) == CHOOSE d \in 0..9 : CharAt(DecDigits, d + 1) = c

HexChar(d) == CharAt(HexDigits, d + 1)

StartsWithAt(s, i, p) ==
  i + Len(p) - 1 <= Len(s) /\ SubSeq(s, i, i + Len(p) - 1) = p

\* str::contains
Contains(s, p) == \E i \in 1..(Len(s) - Len(p) + 1) : StartsWithAt(s, i, p)

Min(S) == CHOOSE x \in S : \A y \in S : x <= y

Max(S) == CHOOSE x \in S : \A y \in S : x >= y

\* The end (exclusive) of the longest run from i of positions of s that are
\* in, a function from the positions of s to BOOLEAN.
RunEnd(s, i, in) ==
  Min({j \in i..(Len(s) + 1) : j = Len(s) + 1 \/ ~in[j]})

RECURSIVE ConcatAll(_)
ConcatAll(ss) ==
  IF ss = <<>> THEN ""
  ELSE IF Len(ss) = 1 THEN ss[1]
  ELSE LET h == Len(ss) \div 2
       IN  ConcatAll(SubSeq(ss, 1, h)) \o ConcatAll(SubSeq(ss, h + 1, Len(ss)))

RECURSIVE Join(_, _)
Join(ss, sep) ==
  IF ss = <<>> THEN ""
  ELSE IF Len(ss) = 1 THEN ss[1]
  ELSE ss[1] \o sep \o Join(Tail(ss), sep)

-----------------------------------------------------------------------------
(* Numbers: sequences of decimal digits                                     *)

\* u64::MAX = 18446744073709551615
U64_MAX == <<1,8,4,4,6,7,4,4,0,7,3,7,0,9,5,5,1,6,1,5>>

\* 2^64 = 18446744073709551616
TWO_POW_64 == <<1,8,4,4,6,7,4,4,0,7,3,7,0,9,5,5,1,6,1,6>>

RECURSIVE Canon(_)
Canon(ds) ==
  IF Len(ds) > 1 /\ ds[1] = 0 THEN Canon(Tail(ds)) ELSE ds

RECURSIVE LexLE(_, _)
LexLE(a, b) ==
  IF a = <<>> THEN TRUE
  ELSE IF a[1] # b[1] THEN a[1] < b[1]
  ELSE LexLE(Tail(a), Tail(b))

\* a <= b for canonical digit sequences
BigLE(a, b) ==
  IF Len(a) # Len(b) THEN Len(a) < Len(b) ELSE LexLE(a, b)

RECURSIVE DigitsOf(_)
DigitsOf(s) ==
  IF s = "" THEN <<>>
  ELSE <<DigitValue(CharAt(s, 1))>> \o DigitsOf(SubSeq(s, 2, Len(s)))

AllAsciiDigits(s) == \A i \in 1..Len(s) : IsAsciiDigit(CharAt(s, i))

\* str::parse::<u64>: an optional '+', then one or more ASCII digits whose
\* value does not overflow 64 bits; anything else is an error.
parse_u64(s) ==
  LET body == IF Len(s) > 0 /\ CharAt(s, 1) = "+" THEN SubSeq(s, 2, Len(s)) ELSE s
  IN  IF body = "" \/ ~AllAsciiDigits(body) THEN [ok |-> FALSE, v |-> <<0>>]
      ELSE LET v == Canon(DigitsOf(body))
           IN  IF BigLE(v, U64_MAX) THEN [ok |-> TRUE, v |-> v]
               ELSE [ok |-> FALSE, v |-> <<0>>]

\* Result::unwrap_or(0)
unwrap_or_0(r) == IF r.ok THEN r.v ELSE <<0>>

\* Long division of a digit sequence by 16: <<quotient digits, remainder>>.
RECURSIVE DivMod16(_, _, _)
DivMod16(ds, q, r) ==
  IF ds = <<>> THEN <<Canon(q), r>>
  ELSE LET cur == r * 10 + ds[1]
       IN  DivMod16(Tail(ds), Append(q, cur \div 16), cur % 16)

\* {:x} of an unsigned value: lowercase hexadecimal, no leading zeros.
RECURSIVE LowerHex(_)
LowerHex(v) ==
  LET dm == DivMod16(v, <<>>, 0)
  IN  IF dm[1] = <<0>> THEN HexChar(dm[2])
      ELSE LowerHex(dm[1]) \o HexChar(dm[2])

-----------------------------------------------------------------------------
(* The regex crate: a match at a position, find_iter, replace_all           *)

\* A match is [from, to, caps]: it covers from..to-1, caps are its groups.
NoMatch == [from |-> 0, to |-> 0, caps |-> <<>>]

\* End (exclusive) of the longest run of \d characters that starts at i.
DigitRunEnd(s, i) == RunEnd(s, i, [j \in 1..Len(s) |-> IsRegexDigit(CharAt(s, j))])

\* End (exclusive) of the longest run of [0-9, ] characters that starts at i.
ArrayRunEnd(s, i) == RunEnd(s, i, [j \in 1..Len(s) |-> IsArrayChar(CharAt(s, j))])

\* A literal alternative at i: its end (exclusive), 0 when it is not there.
LiteralEnd(s, i, lit) == IF StartsWithAt(s, i, lit) THEN i + Len(lit) ELSE 0

\* The alternative r\d+ at i. \d+ is greedy, and what follows the group is
\* ':', no digit, so only the longest run can lead to a match.
RDigitsEnd(s, i) ==
  IF StartsWithAt(s, i, "r") /\ DigitRunEnd(s, i + 1) > i + 1
  THEN DigitRunEnd(s, i + 1) ELSE 0

\* "(alt1|alt2|...): (\d+)" at i, given the end of each alternative at i in
\* the order of the pattern: the first alternative that lets the rest of
\* the pattern match wins (leftmost-first), and \d+ takes the longest run.
FieldMatchAt(s, i, nameEnds) ==
  LET tailOk(e) == StartsWithAt(s, e, ": ") /\ DigitRunEnd(s, e + 2) > e + 2
      ok == {k \in 1..Len(nameEnds) : nameEnds[k] # 0 /\ tailOk(nameEnds[k])}
  IN  IF ok = {} THEN NoMatch
      ELSE LET k == CHOOSE x \in ok : \A y \in ok : x <= y
               e == nameEnds[k]
               t == DigitRunEnd(s, e + 2)
           IN  [from |-> i, to |-> t,
                caps |-> <<SubSeq(s, i, e - 1), SubSeq(s, e + 2, t - 1)>>]

\* (rax|rcx|rdx|rsi|rdi|r\d+): (\d+)
tdx_exit_regex(s, i) ==
  FieldMatchAt(s, i, <<LiteralEnd(s, i, "rax"), LiteralEnd(s, i, "rcx"),
                       LiteralEnd(s, i, "rdx"), LiteralEnd(s, i, "rsi"),
                       LiteralEnd(s, i, "rdi"), RDigitsEnd(s, i)>>)

\* (rflags|rip|ssp|rvi|svi): (\d+)
tdx_gpr_field_regex(s, i) ==
  FieldMatchAt(s, i, <<LiteralEnd(s, i, "rflags"), LiteralEnd(s, i, "rip"),
                       LiteralEnd(s, i, "ssp"), LiteralEnd(s, i, "rvi"),
                       LiteralEnd(s, i, "svi")>>)

\* (base|limit|selector|attributes): (\d+)
segment_register_regex(s, i) ==
  FieldMatchAt(s, i, <<LiteralEnd(s, i, "base"), LiteralEnd(s, i, "limit"),
                       LiteralEnd(s, i, "selector"),
                       LiteralEnd(s, i, "attributes")>>)

\* \[([0-9, ]+)\]
tdx_gpr_array_regex(s, i) ==
  LET e == ArrayRunEnd(s, i + 1)
  IN  IF StartsWithAt(s, i, "[") /\ e > i + 1 /\ StartsWithAt(s, e, "]")
      THEN [from |-> i, to |-> e + 1, caps |-> <<SubSeq(s, i + 1, e - 1)>>]
      ELSE NoMatch

\* The successive non-overlapping matches, leftmost first; at[i] is the
\* match that starts at i.
RECURSIVE FindIter(_, _, _)
FindIter(at, n, i) ==
  LET starts == {j \in i..n : at[j].to # 0}
  IN  IF starts = {} THEN <<>>
      ELSE <<at[Min(starts)]>> \o FindIter(at, n, at[Min(starts)].to)

\* Regex::replace_all as the pieces it writes: the text before each match
\* copied, then the match's replacement, then the text after the last match.
RECURSIVE Segments(_, _, _, _)
Segments(s, ms, reps, i) ==
  IF ms = <<>>
  THEN <<[matched |-> FALSE, src |-> SubSeq(s, i, Len(s)),
          out |-> SubSeq(s, i, Len(s)), caps |-> <<>>]>>
  ELSE <<[matched |-> FALSE, src |-> SubSeq(s, i, ms[1].from - 1),
          out |-> SubSeq(s, i, ms[1].from - 1), caps |-> <<>>],
         [matched |-> TRUE, src |-> SubSeq(s, ms[1].from, ms[1].to - 1),
          out |-> reps[1], caps |-> ms[1].caps]>>
       \o Segments(s, Tail(ms), Tail(reps), ms[1].to)

\* The string replace_all returns.
Output(segs) == ConcatAll([k \in 1..Len(segs) |-> segs[k].out])

-----------------------------------------------------------------------------
(* The three sub-structure transformers                                     *)

exit_info_replacement(caps) ==
  LET reg == caps[1]
      num == unwrap_or_0(parse_u64(caps[2]))
  IN  reg \o ": 0x" \o LowerHex(num)

exit_info_segments(text) ==
  LET ms == FindIter([i \in 1..Len(text) |-> tdx_exit_regex(text, i)],
                     Len(text), 1)
  IN  Segments(text, ms,
               [k \in 1..Len(ms) |-> exit_info_replacement(ms[k].caps)], 1)

transform_tdx_exit_info(text) == Output(exit_info_segments(text))

\* str::split(','): the pieces between the commas, empty ones included.
RECURSIVE SplitFrom(_, _)
SplitFrom(s, from) ==
  LET commas == {j \in from..Len(s) : CharAt(s, j) = ","}
  IN  IF commas = {} THEN <<SubSeq(s, from, Len(s))>>
      ELSE <<SubSeq(s, from, Min(commas) - 1)>> \o SplitFrom(s, Min(commas) + 1)

split_comma(s) == SplitFrom(s, 1)

\* str::trim: leading and trailing white space removed.
RECURSIVE trim(_)
trim(s) ==
  IF s = "" THEN s
  ELSE IF CharAt(s, 1) = " " THEN trim(SubSeq(s, 2, Len(s)))
  ELSE IF CharAt(s, Len(s)) = " " THEN trim(SubSeq(s, 1, Len(s) - 1))
  ELSE s

\* guest_state_array_element with unwrap_or(0), as the scalar pass has it.
guest_state_array_element_or_zero(s) ==
  "0x" \o LowerHex(unwrap_or_0(parse_u64(trim(s))))

guest_state_array_element(s) ==
  LET r == parse_u64(trim(s))
  IN  IF r.ok THEN "0x" \o LowerHex(r.v) ELSE trim(s)

guest_state_array_replacement(caps) ==
  LET numbers_str == caps[1]
      parts == split_comma(numbers_str)
      numbers == [k \in 1..Len(parts) |-> guest_state_array_element(parts[k])]
  IN  "[" \o Join(numbers, ", ") \o "]"

guest_state_array_segments(text) ==
  LET ms == FindIter([i \in 1..Len(text) |-> tdx_gpr_array_regex(text, i)],
                     Len(text), 1)
  IN  Segments(text, ms,
               [k \in 1..Len(ms) |-> guest_state_array_replacement(ms[k].caps)], 1)

guest_state_field_replacement(caps) ==
  LET field == caps[1]
      num == unwrap_or_0(parse_u64(caps[2]))
  IN  field \o ": 0x" \o LowerHex(num)

guest_state_field_segments(transformed) ==
  LET ms == FindIter([i \in 1..Len(transformed) |->
                        tdx_gpr_field_regex(transformed, i)],
                     Len(transformed), 1)
  IN  Segments(transformed, ms,
               [k \in 1..Len(ms) |-> guest_state_field_replacement(ms[k].caps)], 1)

transform_tdx_guest_state(text) ==
  LET transformed == Output(guest_state_array_segments(text))
  IN  Output(guest_state_field_segments(transformed))

\* segment_register_replacement writing "=" for ": ".
segment_register_replacement_with_equals(caps) ==
  LET field == caps[1]
      num == unwrap_or_0(parse_u64(caps[2]))
  IN  field \o "=0x" \o LowerHex(num)

segment_register_replacement(caps) ==
  LET field == caps[1]
      num == unwrap_or_0(parse_u64(caps[2]))
  IN  field \o ": 0x" \o LowerHex(num)

segment_register_segments(text) ==
  LET ms == FindIter([i \in 1..Len(text) |-> segment_register_regex(text, i)],
                     Len(text), 1)
  IN  Segments(text, ms,
               [k \in 1..Len(ms) |-> segment_register_replacement(ms[k].caps)], 1)

transform_segment_register(text) == Output(segment_register_segments(text))

-----------------------------------------------------------------------------
(* The transformers applied to texts: specification SpecXform               *)

MaxPieces == 2

\* What the input texts are put together from: whole fields and arrays of
\* the three dialects, and the parts of such (a name with its separator, a
\* number, a bracket) that make near misses and the 64-bit boundary.
XformPieces ==
  { "rax: 10", "r10: 255", "rip: 16", "base: 8",
    "rdx: ", "svi: ", "limit: ",
    "0", "007", "18446744073709551615", "18446744073709551616",
    ArabicIndicThree,
    "[10, 20, 30]", "[10,20]", "[ 7 ]", "[1 2, 3]", "[,]",
    "[18446744073709551616]",
    "[", "]", " ", "x" }

RECURSIVE TextsOf(_)
TextsOf(n) ==
  IF n = 0 THEN {""}
  ELSE LET shorter == TextsOf(n - 1)
       IN  shorter \cup {t \o p : t \in shorter, p \in XformPieces}

XformInputs == TextsOf(MaxPieces)

InitXform ==
  /\ pc = "input"
  /\ arg \in XformInputs
  /\ ret = ""
  /\ NoFile

CallExitInfo ==
  /\ pc = "input"
  /\ pc' = "exit_info"
  /\ ret' = transform_tdx_exit_info(arg)
  /\ UNCHANGED <<arg, mainVars>>

CallGuestState ==
  /\ pc = "input"
  /\ pc' = "guest_state"
  /\ ret' = transform_tdx_guest_state(arg)
  /\ UNCHANGED <<arg, mainVars>>

CallSegmentRegister ==
  /\ pc = "input"
  /\ pc' = "segment_register"
  /\ ret' = transform_segment_register(arg)
  /\ UNCHANGED <<arg, mainVars>>

NextXform == CallExitInfo \/ CallGuestState \/ CallSegmentRegister

SpecXform == InitXform /\ [][NextXform]_vars

-----------------------------------------------------------------------------
(* What the claims about the transformers speak of                          *)

\* digits * m + c, for a digit sequence without its leading zeros
RECURSIVE BigMulAdd(_, _, _)
BigMulAdd(ds, m, c) ==
  IF ds = <<>>
  THEN IF c = 0 THEN <<>> ELSE BigMulAdd(<<>>, m, c \div 10) \o <<c % 10>>
  ELSE LET cur == ds[Len(ds)] * m + c
       IN  BigMulAdd(SubSeq(ds, 1, Len(ds) - 1), m, cur \div 10) \o <<cur % 10>>

IsLowerHex(h) ==
  /\ h # ""
  /\ \A i \in 1..Len(h) : \E d \in 0..15 : CharAt(h, i) = HexChar(d)

\* The number a lowercase hexadecimal numeral denotes, read digit by digit.
RECURSIVE HexValueFrom(_, _)
HexValueFrom(h, acc) ==
  IF h = "" THEN IF acc = <<>> THEN <<0>> ELSE Canon(acc)
  ELSE LET d == CHOOSE x \in 0..15 : HexChar(x) = CharAt(h, 1)
       IN  HexValueFrom(SubSeq(h, 2, Len(h)), BigMulAdd(acc, 16, d))

HexValue(h) == HexValueFrom(h, <<>>)

\* The number a run of decimal digits denotes, whatever their script.
RECURSIVE NumericValueFrom(_)
NumericValueFrom(s) ==
  IF s = "" THEN <<>>
  ELSE <<IF CharAt(s, 1) = ArabicIndicThree THEN 3 ELSE DigitValue(CharAt(s, 1))>>
       \o NumericValueFrom(SubSeq(s, 2, Len(s)))

NumericValue(s) == Canon(NumericValueFrom(s))

\* The pieces replace_all writes in each pass, for the call the state is in.
FieldSegments ==
  CASE pc = "exit_info" -> exit_info_segments(arg)
    [] pc = "guest_state" ->
         guest_state_field_segments(Output(guest_state_array_segments(arg)))
    [] pc = "segment_register" -> segment_register_segments(arg)
    [] OTHER -> <<>>

MatchedOf(segs) == {k \in 1..Len(segs) : segs[k].matched}

\* The matches whose number is written in ASCII digits: a <decimal>.
DecimalMatchesOf(segs) ==
  {k \in MatchedOf(segs) : AllAsciiDigits(segs[k].caps[2])}

\* A replacement is "<name>: 0x<hex>" with the name of the match and the
\* hexadecimal numeral of the matched number's value.
SameValueInHex(seg) ==
  LET name == seg.caps[1]
      head == name \o ": 0x"
      hex == SubSeq(seg.out, Len(head) + 1, Len(seg.out))
  IN  /\ StartsWithAt(seg.out, 1, head)
      /\ IsLowerHex(hex)
      /\ HexValue(hex) = NumericValue(seg.caps[2])

\* The names each field pattern lists, and whether "<name>: <digit>" is at i.
NamesOf(call) ==
  CASE call = "exit_info" -> {"rax", "rcx", "rdx", "rsi", "rdi"}
    [] call = "guest_state" -> {"rflags", "rip", "ssp", "rvi", "svi"}
    [] call = "segment_register" -> {"base", "limit", "selector", "attributes"}

OccurrenceAt(call, s, i) ==
  \/ \E n \in NamesOf(call) :
       /\ StartsWithAt(s, i, n \o ": ")
       /\ i + Len(n) + 2 <= Len(s)
       /\ IsRegexDigit(CharAt(s, i + Len(n) + 2))
  \/ /\ call = "exit_info"
     /\ \E j \in (i + 2)..Len(s) :
          /\ CharAt(s, i) = "r"
          /\ \A k \in (i + 1)..(j - 1) : IsRegexDigit(CharAt(s, k))
          /\ StartsWithAt(s, j, ": ")
          /\ j + 2 <= Len(s)
          /\ IsRegexDigit(CharAt(s, j + 2))

\* Where each piece of segs begins in the text the pass read.
RECURSIVE SrcStart(_, _)
SrcStart(segs, k) == IF k = 1 THEN 1 ELSE SrcStart(segs, k - 1) + Len(segs[k - 1].src)

\* Where each piece of segs begins in the text the pass wrote.
RECURSIVE OutStart(_, _)
OutStart(segs, k) == IF k = 1 THEN 1 ELSE OutStart(segs, k - 1) + Len(segs[k - 1].out)

\* The text the scalar pass of transform_tdx_guest_state reads.
ScalarPassInput(call, s) ==
  IF call = "guest_state" THEN Output(guest_state_array_segments(s)) ELSE s

\* C7: in Transformers A and C and the scalar pass of B, every occurrence of
\* "<name>: <decimal>" is rewritten to "<name>: 0x<hex>", <hex> being the
\* lowercase hexadecimal numeral of the same value, the name kept. (Stated
\* for numbers written in ASCII digits.)
C7_SameValue ==
  pc \in {"exit_info", "guest_state", "segment_register"} =>
    LET segs == FieldSegments
        src == ScalarPassInput(pc, arg)
    IN  /\ ret = Output(segs)
        /\ \A k \in DecimalMatchesOf(segs) : SameValueInHex(segs[k])
        /\ \A i \in 1..Len(src) :
             OccurrenceAt(pc, src, i) =>
               \E k \in MatchedOf(segs) : SrcStart(segs, k) = i

\* C10: every digit sequence a field pattern matches parses as an unsigned
\* 64-bit integer, so that no matched number becomes 0x0 unless it is 0.
\* (Stated for numbers written in ASCII digits.)
C10_NoZeroFallback ==
  pc \in {"exit_info", "guest_state", "segment_register"} =>
    \A k \in DecimalMatchesOf(FieldSegments) :
      LET seg == FieldSegments[k]
      IN  /\ parse_u64(seg.caps[2]).ok
          /\ seg.out = seg.caps[1] \o ": 0x0" => NumericValue(seg.caps[2]) = <<0>>

\* The pieces the array pass of transform_tdx_guest_state writes.
ArraySegments == guest_state_array_segments(arg)

\* One element of a rewritten array against the element it was made from:
\* the hexadecimal numeral of the same value when the element parses, the
\* element's trimmed text otherwise.
ElementRewritten(elemIn, elemOut) ==
  LET t == trim(elemIn)
      hex == SubSeq(elemOut, 3, Len(elemOut))
  IN  IF parse_u64(t).ok
      THEN /\ StartsWithAt(elemOut, 1, "0x")
           /\ IsLowerHex(hex)
           /\ HexValue(hex) = Canon(DigitsOf(t))
      ELSE elemOut = t

ArrayRewritten(seg) ==
  LET ins == split_comma(seg.caps[1])
      outs == split_comma(SubSeq(seg.out, 2, Len(seg.out) - 1))
  IN  /\ StartsWithAt(seg.out, 1, "[")
      /\ StartsWithAt(seg.out, Len(seg.out), "]")
      /\ Len(outs) = Len(ins)
      /\ ElementRewritten(ins[1], outs[1])
      /\ \A k \in 2..Len(ins) :
           /\ StartsWithAt(outs[k], 1, " ")
           /\ ElementRewritten(ins[k], SubSeq(outs[k], 2, Len(outs[k])))

Disjoint(a, alen, b, blen) == a + alen <= b \/ b + blen <= a

\* C8: Transformer B runs the array pass, then the scalar pass. Every
\* element of a bracketed array that parses as an unsigned 64-bit integer
\* is replaced by its hexadecimal form and every other element is left as
\* its trimmed text; the scalar pass rewrites nothing inside an array the
\* array pass wrote, and the array pass rewrites no scalar field's number.
C8_ArrayThenScalar ==
  pc = "guest_state" =>
    LET asegs == ArraySegments
        mid == Output(asegs)
        fsegs == guest_state_field_segments(mid)
    IN  /\ ret = Output(fsegs)
        /\ arg = "[10, 20, 30]" => ret = "[0xa, 0x14, 0x1e]"
        /\ \A k \in MatchedOf(asegs) : ArrayRewritten(asegs[k])
        /\ \A k \in MatchedOf(asegs) : \A j \in MatchedOf(fsegs) :
             Disjoint(OutStart(asegs, k), Len(asegs[k].out),
                      SrcStart(fsegs, j), Len(fsegs[j].src))
        /\ \A k \in MatchedOf(asegs) : \A i \in 1..Len(arg) :
             LET m == tdx_gpr_field_regex(arg, i)
             IN  m # NoMatch =>
                   Disjoint(SrcStart(asegs, k), Len(asegs[k].src),
                            m.to - Len(m.caps[2]), Len(m.caps[2]))

\* An array with an element that parses and one that does not, and a scalar
\* field after it, has gone through Transformer B.
C8_Witness ==
  /\ pc = "guest_state"
  /\ arg = "[1 2, 3]rip: 16"
  /\ ret = "[1 2, 0x3]rip: 0x10"

LastIndexOf(s, c) == Max({0} \cup {i \in 1..Len(s) : CharAt(s, i) = c})

WithoutSpaces(s) ==
  ConcatAll([i \in 1..Len(s) |-> IF CharAt(s, i) = " " THEN "" ELSE CharAt(s, i)])

\* A field match with its number deleted.
FieldSrcRest(seg) == SubSeq(seg.src, 1, Len(seg.src) - Len(seg.caps[2]))

\* A field replacement with its hexadecimal numeral, "0x" and the digits
\* that end the replacement, deleted.
FieldOutRest(seg) ==
  LET x == LastIndexOf(seg.out, "x")
  IN  IF /\ x >= 2
         /\ CharAt(seg.out, x - 1) = "0"
         /\ IsLowerHex(SubSeq(seg.out, x + 1, Len(seg.out)))
      THEN SubSeq(seg.out, 1, x - 2)
      ELSE seg.out

\* The white space around the trimmed text of s.
Surroundings(s) ==
  LET t == trim(s)
      lead == CHOOSE n \in 0..Len(s) :
                /\ StartsWithAt(s, n + 1, t)
                /\ \A i \in 1..n : CharAt(s, i) = " "
  IN  SubSeq(s, 1, lead) \o SubSeq(s, lead + Len(t) + 1, Len(s))

\* An array match with the elements that were converted deleted.
ArraySrcRest(seg) ==
  LET ins == split_comma(seg.caps[1])
  IN  "[" \o Join([k \in 1..Len(ins) |->
                     IF parse_u64(trim(ins[k])).ok THEN Surroundings(ins[k])
                     ELSE ins[k]], ",") \o "]"

\* An array replacement with its hexadecimal numerals deleted.
ArrayOutRest(seg) ==
  LET outs == split_comma(SubSeq(seg.out, 2, Len(seg.out) - 1))
      IsHex(t) == StartsWithAt(t, 1, "0x") /\ IsLowerHex(SubSeq(t, 3, Len(t)))
  IN  IF StartsWithAt(seg.out, 1, "[") /\ StartsWithAt(seg.out, Len(seg.out), "]")
      THEN "[" \o Join([k \in 1..Len(outs) |->
                          IF IsHex(trim(outs[k])) THEN Surroundings(outs[k])
                          ELSE outs[k]], ",") \o "]"
      ELSE seg.out

\* The text between the matches is copied, and each match keeps everything
\* but its numbers.
FieldPassKeepsRest(segs) ==
  \A k \in 1..Len(segs) :
    IF segs[k].matched THEN FieldSrcRest(segs[k]) = FieldOutRest(segs[k])
    ELSE segs[k].out = segs[k].src

ArrayPassKeepsRest(segs) ==
  \A k \in 1..Len(segs) :
    IF segs[k].matched THEN ArraySrcRest(segs[k]) = ArrayOutRest(segs[k])
    ELSE segs[k].out = segs[k].src

ArrayPassKeepsRestButSpaces(segs) ==
  \A k \in 1..Len(segs) :
    IF segs[k].matched
    THEN WithoutSpaces(ArraySrcRest(segs[k])) = WithoutSpaces(ArrayOutRest(segs[k]))
    ELSE segs[k].out = segs[k].src

\* C9 as claimed: each transformer changes only the numbers it converts;
\* with them deleted from the input and their replacements from the output,
\* the same characters are left.
C9_OnlyNumbersChange ==
  /\ pc \in {"exit_info", "guest_state", "segment_register"} =>
       ret = Output(FieldSegments) /\ FieldPassKeepsRest(FieldSegments)
  /\ pc = "guest_state" => ArrayPassKeepsRest(ArraySegments)

\* C9 as amended: Transformers A and C and the scalar pass of B change only
\* the numbers they convert; the array pass of B changes only the elements
\* it converts and the spaces inside the brackets of a matched array (it
\* trims every element and joins them with ", ").
C9_OnlyNumbersAndArraySpacesChange ==
  /\ pc \in {"exit_info", "guest_state", "segment_register"} =>
       ret = Output(FieldSegments) /\ FieldPassKeepsRest(FieldSegments)
  /\ pc = "guest_state" => ArrayPassKeepsRestButSpaces(ArraySegments)

\* An array written without spaces, and a scalar field, have gone through
\* Transformer B.
C9_Witness ==
  /\ pc = "guest_state"
  /\ arg = "[10,20]rip: 16"
  /\ ret = "[0xa, 0x14]rip: 0x10"

-----------------------------------------------------------------------------
(* serde_json::Value and its Display                                        *)

\* A Value is a record tagged by t: "null"; "bool" (b); "pos", a Number
\* held as u64 (d, its digits); "neg", a Number held as a negative i64 (d,
\* the digits of its magnitude); "float", a Number held as f64 (txt, the
\* shortest text that reads back as it); "str" (s); "arr" (a, the elements);
\* "obj" (m, the entries [k, v] in the order the map iterates them).
Null == [t |-> "null"]

Bool(b) == [t |-> "bool", b |-> b]

PosInt(d) == [t |-> "pos", d |-> d]

NegInt(d) == [t |-> "neg", d |-> d]

Float(txt) == [t |-> "float", txt |-> txt]

Str(s) == [t |-> "str", s |-> s]

Arr(a) == [t |-> "arr", a |-> a]

Obj(m) == [t |-> "obj", m |-> m]

\* i64::MAX = 9223372036854775807
I64_MAX == <<9,2,2,3,3,7,2,0,3,6,8,5,4,7,7,5,8,0,7>>

\* The magnitude of i64::MIN, 2^63 = 9223372036854775808
I64_MIN_MAGNITUDE == <<9,2,2,3,3,7,2,0,3,6,8,5,4,7,7,5,8,0,8>>

RECURSIVE DecimalText(_)
DecimalText(ds) ==
  IF ds = <<>> THEN "" ELSE CharAt(DecDigits, ds[1] + 1) \o DecimalText(Tail(ds))

\* A string as JSON text: quoted, with '"', '\' and the line feed escaped.
EscapeChar(c) ==
  CASE c = "\"" -> "\\\""
    [] c = "\\" -> "\\\\"
    [] c = "\n" -> "\\n"
    [] OTHER -> c

EscapeChars(s) == ConcatAll([i \in 1..Len(s) |-> EscapeChar(CharAt(s, i))])

Quoted(s) == "\"" \o EscapeChars(s) \o "\""

\* Display of a Value: its compact JSON text.
RECURSIVE Display(_)
Display(v) ==
  CASE v.t = "null" -> "null"
    [] v.t = "bool" -> IF v.b THEN "true" ELSE "false"
    [] v.t = "pos" -> DecimalText(v.d)
    [] v.t = "neg" -> "-" \o DecimalText(v.d)
    [] v.t = "float" -> v.txt
    [] v.t = "str" -> Quoted(v.s)
    [] v.t = "arr" ->
         "[" \o Join([k \in 1..Len(v.a) |-> Display(v.a[k])], ",") \o "]"
    [] v.t = "obj" ->
         "{" \o Join([k \in 1..Len(v.m) |->
                        Quoted(v.m[k].k) \o ":" \o Display(v.m[k].v)], ",")
         \o "}"

None == [some |-> FALSE]

Some(x) == [some |-> TRUE, v |-> x]

is_number(v) == v.t \in {"pos", "neg", "float"}

is_string(v) == v.t = "str"

as_str(v) == IF v.t = "str" THEN Some(v.s) ELSE None

as_object(v) == IF v.t = "obj" THEN Some(v.m) ELSE None

\* Value::as_u64: the number, when it is held as u64.
as_u64(v) == IF v.t = "pos" THEN Some(v.d) ELSE None

\* Value::as_i64: the number, when it is an integer that fits i64. An i64 is
\* [neg, d]: its sign and the digits of its magnitude.
as_i64(v) ==
  CASE v.t = "pos" ->
         IF BigLE(v.d, I64_MAX) THEN Some([neg |-> FALSE, d |-> v.d]) ELSE None
    [] v.t = "neg" -> Some([neg |-> TRUE, d |-> v.d])
    [] OTHER -> None

\* a - b on digit sequences, for a >= b
RECURSIVE BigSubRev(_, _, _)
BigSubRev(a, b, borrow) ==
  IF a = <<>> THEN <<>>
  ELSE LET x == a[Len(a)]
           y == (IF b = <<>> THEN 0 ELSE b[Len(b)]) + borrow
           rest(bw) == BigSubRev(SubSeq(a, 1, Len(a) - 1),
                                 IF b = <<>> THEN <<>> ELSE SubSeq(b, 1, Len(b) - 1),
                                 bw)
       IN  IF x >= y THEN rest(0) \o <<x - y>> ELSE rest(1) \o <<x + 10 - y>>

BigSub(a, b) == Canon(BigSubRev(a, b, 0))

\* LowerHexI64 giving the hexadecimal of the magnitude.
LowerHexI64_of_magnitude(x) == LowerHex(x.d)

\* {:x} of an i64: the hexadecimal of its 64-bit two's-complement pattern.
LowerHexI64(x) ==
  IF x.neg THEN LowerHex(BigSub(TWO_POW_64, x.d)) ELSE LowerHex(x.d)

format_value_as_hex(key, value) ==
  IF is_number(value)
  THEN IF as_u64(value).some
       THEN " " \o key \o "=0x" \o LowerHex(as_u64(value).v)
       ELSE IF as_i64(value).some
       THEN " " \o key \o "=0x" \o LowerHexI64(as_i64(value).v)
       ELSE " " \o key \o "=" \o Display(value)
  ELSE " " \o key \o "=" \o Display(value)

-----------------------------------------------------------------------------
(* serde_json::from_str                                                     *)

\* The result of reading a value at a position: the value and the position
\* after it, or a failure.
Fail == [ok |-> FALSE, v |-> Null, next |-> 0]

Read(v, next) == [ok |-> TRUE, v |-> v, next |-> next]

IsWhitespace(c) == c \in {" ", "\n", "\t", "\r"}

SkipWs(s, i) == RunEnd(s, i, [j \in 1..Len(s) |-> IsWhitespace(CharAt(s, j))])

AsciiDigitRunEnd(s, i) == RunEnd(s, i, [j \in 1..Len(s) |-> IsAsciiDigit(CharAt(s, j))])

\* The f64 a number literal is read as, as the text Display gives it: the
\* literals the inputs hold; every other one is taken to print as written.
F64Text(lit) ==
  CASE lit = "18446744073709551616" -> "1.8446744073709552e19"
    [] lit = "-0" -> "-0.0"
    [] OTHER -> lit

\* A number: -? (0 | [1-9][0-9]*) (. [0-9]+)?. An integer becomes a u64 or
\* a negative i64 when it fits and an f64 otherwise; -0 is the f64 -0.0.
\* Exponents are not modelled: no input holds one.
ParseNumber(s, i) ==
  LET neg == StartsWithAt(s, i, "-")
      b == IF neg THEN i + 1 ELSE i
      e == AsciiDigitRunEnd(s, b)
      intOk == e > b /\ (CharAt(s, b) = "0" => e = b + 1)
      hasFrac == StartsWithAt(s, e, ".")
      f == AsciiDigitRunEnd(s, e + 1)
      d == Canon(DigitsOf(SubSeq(s, b, e - 1)))
  IN  IF ~intOk THEN Fail
      ELSE IF hasFrac
      THEN IF f > e + 1 THEN Read(Float(F64Text(SubSeq(s, i, f - 1))), f) ELSE Fail
      ELSE IF ~neg
      THEN IF BigLE(d, U64_MAX) THEN Read(PosInt(d), e)
           ELSE Read(Float(F64Text(SubSeq(s, i, e - 1))), e)
      ELSE IF d # <<0>> /\ BigLE(d, I64_MIN_MAGNITUDE) THEN Read(NegInt(d), e)
           ELSE Read(Float(F64Text(SubSeq(s, i, e - 1))), e)

\* The character a one-letter escape stands for, "" when it is none.
\* \b and \u are not modelled: no input holds one.
Unescape(c) ==
  CASE c = "\"" -> "\""
    [] c = "\\" -> "\\"
    [] c = "/" -> "/"
    [] c = "n" -> "\n"
    [] c = "t" -> "\t"
    [] c = "r" -> "\r"
    [] c = "f" -> "\f"
    [] OTHER -> ""

IsPlainStringChar(c) == c \notin {"\"", "\\", "\n", "\t", "\r", "\f"}

\* The body of a string from i, read up to its closing quote: runs of plain
\* characters and escapes; a control character in it is an error.
RECURSIVE ParseStringBody(_, _, _)
ParseStringBody(s, i, acc) ==
  LET j == RunEnd(s, i, [k \in 1..Len(s) |-> IsPlainStringChar(CharAt(s, k))])
      text == acc \o SubSeq(s, i, j - 1)
  IN  IF j > Len(s) THEN Fail
      ELSE IF CharAt(s, j) = "\"" THEN Read(Str(text), j + 1)
      ELSE IF CharAt(s, j) = "\\"
      THEN IF j + 1 <= Len(s) /\ Unescape(CharAt(s, j + 1)) # ""
           THEN ParseStringBody(s, j + 2, text \o Unescape(CharAt(s, j + 1)))
           ELSE Fail
      ELSE Fail

ParseString(s, i) ==
  IF StartsWithAt(s, i, "\"") THEN ParseStringBody(s, i + 1, "") ELSE Fail

ParseLiteral(s, i, lit, v) ==
  IF StartsWithAt(s, i, lit) THEN Read(v, i + Len(lit)) ELSE Fail

RECURSIVE IndexOfKey(_, _)
IndexOfKey(m, key) ==
  IF m = <<>> THEN 0
  ELSE IF m[Len(m)].k = key THEN Len(m)
  ELSE IndexOfKey(SubSeq(m, 1, Len(m) - 1), key)

\* Map::insert: a key the map holds keeps its place and takes the new
\* value; a new key comes after the others (the map iterates its entries
\* in the order they were inserted).
MapInsert(m, key, value) ==
  LET at == IndexOfKey(m, key)
  IN  IF at = 0 THEN Append(m, [k |-> key, v |-> value])
      ELSE [m EXCEPT ![at] = [k |-> key, v |-> value]]

RECURSIVE ParseValue(_, _)
RECURSIVE ParseElements(_, _, _)
RECURSIVE ParseMembers(_, _, _)

\* The value that starts at i, white space skipped.
ParseValue(s, i0) ==
  LET i == SkipWs(s, i0)
      c == CharAt(s, i)
  IN  IF i > Len(s) THEN Fail
      ELSE CASE c = "n" -> ParseLiteral(s, i, "null", Null)
             [] c = "t" -> ParseLiteral(s, i, "true", Bool(TRUE))
             [] c = "f" -> ParseLiteral(s, i, "false", Bool(FALSE))
             [] c = "\"" -> ParseString(s, i)
             [] c = "-" \/ IsAsciiDigit(c) -> ParseNumber(s, i)
             [] c = "[" ->
                  IF StartsWithAt(s, SkipWs(s, i + 1), "]")
                  THEN Read(Arr(<<>>), SkipWs(s, i + 1) + 1)
                  ELSE ParseElements(s, i + 1, <<>>)
             [] c = "{" ->
                  IF StartsWithAt(s, SkipWs(s, i + 1), "}")
                  THEN Read(Obj(<<>>), SkipWs(s, i + 1) + 1)
                  ELSE ParseMembers(s, i + 1, <<>>)
             [] OTHER -> Fail

\* The elements of an array from i on: a value, then ',' and the rest, or ']'.
ParseElements(s, i, acc) ==
  LET r == ParseValue(s, i)
      j == SkipWs(s, r.next)
  IN  IF ~r.ok THEN Fail
      ELSE IF StartsWithAt(s, j, ",") THEN ParseElements(s, j + 1, Append(acc, r.v))
      ELSE IF StartsWithAt(s, j, "]") THEN Read(Arr(Append(acc, r.v)), j + 1)
      ELSE Fail

\* The members of an object from i on: a key, ':', a value, then ',' and
\* the rest, or '}'.
ParseMembers(s, i, acc) ==
  LET key == ParseString(s, SkipWs(s, i))
      colon == SkipWs(s, key.next)
      r == ParseValue(s, colon + 1)
      j == SkipWs(s, r.next)
  IN  IF ~key.ok \/ ~StartsWithAt(s, colon, ":") THEN Fail
      ELSE IF ~r.ok THEN Fail
      ELSE IF StartsWithAt(s, j, ",")
      THEN ParseMembers(s, j + 1, MapInsert(acc, key.v.s, r.v))
      ELSE IF StartsWithAt(s, j, "}")
      THEN Read(Obj(MapInsert(acc, key.v.s, r.v)), j + 1)
      ELSE Fail

\* serde_json::from_str: one value, and nothing but white space after it.
from_str(s) ==
  LET r == ParseValue(s, 1)
  IN  IF r.ok /\ SkipWs(s, r.next) > Len(s) THEN [ok |-> TRUE, v |-> r.v]
      ELSE [ok |-> FALSE, v |-> Null]

-----------------------------------------------------------------------------
(* format_value_as_hex applied to values: specification SpecFmt             *)

MaxElems == 2

FmtKeys == {"count", "raw_exit", "k"}

\* One or two values of every kind, the integers at the ends of u64 and i64.
ScalarValues ==
  { Null, Bool(TRUE), Bool(FALSE),
    PosInt(<<0>>), PosInt(<<1, 0>>), PosInt(<<2, 5, 5>>), PosInt(I64_MAX),
    PosInt(I64_MIN_MAGNITUDE), PosInt(U64_MAX),
    NegInt(<<1>>), NegInt(<<2, 5, 5>>), NegInt(I64_MIN_MAGNITUDE),
    Float("1.5"), Float("-0.0"), Float("1.8446744073709552e19"),
    Str(""), Str("hi"), Str("255"), Str("a\"b\\c") }

ElemValues == {Null, PosInt(<<2, 5, 5>>), NegInt(<<1>>), Str("hi")}

RECURSIVE SeqsUpTo(_, _)
SeqsUpTo(S, n) ==
  IF n = 0 THEN {<<>>}
  ELSE LET shorter == SeqsUpTo(S, n - 1)
       IN  shorter \cup {Append(q, x) : q \in shorter, x \in S}

\* Entries with distinct keys, as a map holds them.
EntrySeqs(keys, vals, n) ==
  {m \in SeqsUpTo([k : keys, v : vals], n) :
     \A i, j \in 1..Len(m) : i # j => m[i].k # m[j].k}

FmtValues ==
  ScalarValues
    \cup {Arr(a) : a \in SeqsUpTo(ElemValues, MaxElems)}
    \cup {Obj(m) : m \in EntrySeqs({"a", "b"}, {PosInt(<<2, 5, 5>>), Str("hi")}, MaxElems)}

InitFmt ==
  /\ pc = "input"
  /\ arg \in [key : FmtKeys, value : FmtValues]
  /\ ret = ""
  /\ NoFile

CallFormatValueAsHex ==
  /\ pc = "input"
  /\ pc' = "formatted"
  /\ ret' = format_value_as_hex(arg.key, arg.value)
  /\ UNCHANGED <<arg, mainVars>>

NextFmt == CallFormatValueAsHex

SpecFmt == InitFmt /\ [][NextFmt]_vars

\* Each hexadecimal digit d replaced by 15 - d: the bits inverted.
RECURSIVE InvertHex(_)
InvertHex(h) ==
  IF h = "" THEN ""
  ELSE LET d == CHOOSE x \in 0..15 : HexChar(x) = CharAt(h, 1)
       IN  HexChar(15 - d) \o InvertHex(SubSeq(h, 2, Len(h)))

\* The JSON text of some values, written out.
JsonTextTable ==
  << <<Null, "null">>, <<Bool(TRUE), "true">>, <<Bool(FALSE), "false">>,
     <<Float("1.5"), "1.5">>, <<Str("hi"), "\"hi\"">>, <<Str(""), "\"\"">>,
     <<Str("a\"b\\c"), "\"a\\\"b\\\\c\"">>,
     <<Arr(<<>>), "[]">>, <<Arr(<<PosInt(<<2, 5, 5>>), Str("hi")>>), "[255,\"hi\"]">>,
     <<Arr(<<NegInt(<<1>>), Null>>), "[-1,null]">>,
     <<Obj(<<>>), "{}">>,
     <<Obj(<<[k |-> "b", v |-> Str("hi")], [k |-> "a", v |-> PosInt(<<2, 5, 5>>)]>>),
       "{\"b\":\"hi\",\"a\":255}">> >>

\* C5: format_value_as_hex renders every JSON value as " key=<v>": a number
\* held as u64 as 0x and its lowercase hexadecimal; a negative integer as 0x
\* and the hexadecimal of its 64-bit two's-complement pattern (-1 gives
\* 0xffffffffffffffff); every other value as its default JSON text.
C5_FormatValueAsHex ==
  pc = "formatted" =>
    LET head == " " \o arg.key \o "="
        body == SubSeq(ret, Len(head) + 1, Len(ret))
        hex == SubSeq(body, 3, Len(body))
        v == arg.value
    IN  /\ StartsWithAt(ret, 1, head)
        /\ v.t = "pos" =>
             /\ StartsWithAt(body, 1, "0x")
             /\ IsLowerHex(hex)
             /\ HexValue(hex) = v.d
             /\ hex = "0" \/ CharAt(hex, 1) # "0"
        /\ v.t = "neg" =>
             /\ StartsWithAt(body, 1, "0x")
             /\ IsLowerHex(hex)
             /\ Len(hex) = 16
             /\ Canon(BigMulAdd(HexValue(InvertHex(hex)), 1, 1)) = v.d
        /\ v = NegInt(<<1>>) => body = "0xffffffffffffffff"
        /\ v = PosInt(<<2, 5, 5>>) => body = "0xff"
        /\ v.t \notin {"pos", "neg"} => body = Display(v)
        /\ \A i \in 1..Len(JsonTextTable) :
             v = JsonTextTable[i][1] => body = JsonTextTable[i][2]

\* -1 has been formatted.
C5_Witness ==
  /\ pc = "formatted"
  /\ arg = [key |-> "count", value |-> NegInt(<<1>>)]
  /\ ret = " count=0xffffffffffffffff"

-----------------------------------------------------------------------------
(* process_message                                                          *)

\* Value::get with a string index: the member of an object, None for a
\* missing key or a value that is no object.
get(json, key) ==
  IF json.t = "obj" /\ IndexOfKey(json.m, key) # 0
  THEN Some(json.m[IndexOfKey(json.m, key)].v)
  ELSE None

\* Option::and_then(Value::as_str)
and_then_as_str(o) == IF o.some THEN as_str(o.v) ELSE None

\* extract_required with target left out of the match on the four options.
extract_required_without_target(json) ==
  LET timestamp == and_then_as_str(get(json, "timestamp"))
      level == and_then_as_str(get(json, "level"))
      target == and_then_as_str(get(json, "target"))
      fields == get(json, "fields")
  IN  IF timestamp.some /\ level.some /\ fields.some
      THEN Some([timestamp |-> timestamp.v, level |-> level.v,
                 target |-> IF target.some THEN target.v ELSE "",
                 fields |-> fields.v])
      ELSE None

\* The four required members, when all are there.
extract_required(json) ==
  LET timestamp == and_then_as_str(get(json, "timestamp"))
      level == and_then_as_str(get(json, "level"))
      target == and_then_as_str(get(json, "target"))
      fields == get(json, "fields")
  IN  IF timestamp.some /\ level.some /\ target.some /\ fields.some
      THEN Some([timestamp |-> timestamp.v, level |-> level.v,
                 target |-> target.v, fields |-> fields.v])
      ELSE None

\* get_message taking a message of any type, as its JSON text.
get_message_of_any_type(obj) ==
  IF IndexOfKey(obj, "message") = 0 THEN None
  ELSE LET v == obj[IndexOfKey(obj, "message")].v
       IN  IF v.t = "str" THEN Some(v.s) ELSE Some(Display(v))

\* obj.get("message").and_then(Value::as_str)
get_message(obj) ==
  and_then_as_str(IF IndexOfKey(obj, "message") # 0
                  THEN Some(obj[IndexOfKey(obj, "message")].v)
                  ELSE None)

\* field_fragment with the segment-register branch testing the key, not the
\* content.
field_fragment_by_key(key, value) ==
  IF key = "raw_exit" /\ is_string(value)
  THEN IF Contains(as_str(value).v, "tdx_tdg_vp_enter_exit_info")
       THEN " " \o key \o "=\"" \o transform_tdx_exit_info(as_str(value).v) \o "\""
       ELSE format_value_as_hex(key, value)
  ELSE IF key = "gprs" /\ is_string(value)
  THEN IF Contains(as_str(value).v, "TdxL2EnterGuestState")
       THEN " " \o key \o "=\"" \o transform_tdx_guest_state(as_str(value).v) \o "\""
       ELSE format_value_as_hex(key, value)
  ELSE IF is_string(value) /\ Contains(key, "SegmentRegister")
  THEN " " \o key \o "=\"" \o transform_segment_register(as_str(value).v) \o "\""
  ELSE format_value_as_hex(key, value)

\* What one pass of the loop over obj appends for a key other than message.
\* A raw_exit or gprs string without its marker leaves the if chain and is
\* formatted as a regular value: the later branches are not tried.
field_fragment(key, value) ==
  IF key = "raw_exit" /\ is_string(value)
  THEN IF Contains(as_str(value).v, "tdx_tdg_vp_enter_exit_info")
       THEN " " \o key \o "=\"" \o transform_tdx_exit_info(as_str(value).v) \o "\""
       ELSE format_value_as_hex(key, value)
  ELSE IF key = "gprs" /\ is_string(value)
  THEN IF Contains(as_str(value).v, "TdxL2EnterGuestState")
       THEN " " \o key \o "=\"" \o transform_tdx_guest_state(as_str(value).v) \o "\""
       ELSE format_value_as_hex(key, value)
  ELSE IF is_string(value) /\ Contains(as_str(value).v, "SegmentRegister")
  THEN " " \o key \o "=\"" \o transform_segment_register(as_str(value).v) \o "\""
  ELSE format_value_as_hex(key, value)

\* append_fields without the test that skips message.
RECURSIVE append_fields_with_message(_, _)
append_fields_with_message(output, obj) ==
  IF obj = <<>> THEN output
  ELSE append_fields_with_message(output \o field_fragment(obj[1].k, obj[1].v),
                                  Tail(obj))

\* for (key, value) in obj: message skipped, a fragment pushed for the rest.
RECURSIVE append_fields(_, _)
append_fields(output, obj) ==
  IF obj = <<>> THEN output
  ELSE IF obj[1].k = "message" THEN append_fields(output, Tail(obj))
  ELSE append_fields(output \o field_fragment(obj[1].k, obj[1].v), Tail(obj))

process_message(message_field) ==
  IF message_field = "" THEN ""
  ELSE LET parsed == from_str(message_field)
           req == extract_required(parsed.v)
           header == "[" \o req.v.timestamp \o "][" \o req.v.level \o "]["
                     \o req.v.target \o "] "
           obj == as_object(req.v.fields)
           message == get_message(obj.v)
       IN  IF ~parsed.ok THEN message_field
           ELSE IF ~req.some THEN message_field
           ELSE IF ~obj.some THEN header \o Display(req.v.fields)
           ELSE IF ~message.some THEN header \o Display(req.v.fields)
           ELSE append_fields(header \o message.v, obj.v)

-----------------------------------------------------------------------------
(* process_message applied to cells: specification SpecMsg                  *)

MaxFields == 3

Entry(k, v) == [k |-> k, v |-> v]

\* The members the fields objects are made of: a message of the right and
\* of the wrong type, a number, and for each sub-structure key a string with
\* its own marker and one with the segment-register marker.
FieldPool ==
  { Entry("message", Str("hi")),
    Entry("message", PosInt(<<5>>)),
    Entry("count", PosInt(<<2, 5, 5>>)),
    Entry("raw_exit", Str("tdx_tdg_vp_enter_exit_info rax: 10, rcx: 255")),
    Entry("raw_exit", Str("SegmentRegister base: 8")),
    Entry("gprs", Str("TdxL2EnterGuestState regs=[10, 20, 30] rip: 16")),
    Entry("gprs", Str("SegmentRegister limit: 9")),
    Entry("cs", Str("SegmentRegister base: 8")),
    Entry("cs", NegInt(<<1>>)) }

DistinctKeys(m) == \A i, j \in 1..Len(m) : i # j => m[i].k # m[j].k

FieldsValues ==
  {Obj(m) : m \in {q \in SeqsUpTo(FieldPool, MaxFields) : DistinctKeys(q)}}
    \cup {Null, PosInt(<<7>>), Str("SegmentRegister base: 8"),
          Arr(<<PosInt(<<2, 5, 5>>)>>)}

FullEntry(fields) ==
  Obj(<<Entry("timestamp", Str("T")), Entry("level", Str("INFO")),
        Entry("target", Str("mod")), Entry("fields", fields)>>)

\* Entries with one required member missing or of the wrong type.
DefectiveEntries ==
  LET f == Obj(<<Entry("message", Str("hi")), Entry("count", PosInt(<<2, 5, 5>>))>>)
      ts == Entry("timestamp", Str("T"))
      lv == Entry("level", Str("INFO"))
      tg == Entry("target", Str("mod"))
      fl == Entry("fields", f)
  IN  { Obj(<<lv, tg, fl>>), Obj(<<Entry("timestamp", PosInt(<<7>>)), lv, tg, fl>>),
        Obj(<<ts, tg, fl>>), Obj(<<ts, Entry("level", Null), tg, fl>>),
        Obj(<<ts, lv, fl>>), Obj(<<ts, lv, Entry("target", Bool(TRUE)), fl>>),
        Obj(<<ts, lv, tg>>), Obj(<<>>) }

\* What a cell that is no JSON text decodes to.
NotJson == [t |-> "invalid"]

\* Cells written by hand, each with what it decodes to: texts that are no
\* JSON, JSON values that are no objects, an entry written with white space
\* and one with a key given twice.
RawCells ==
  { [cell |-> "", top |-> NotJson],
    [cell |-> "not json", top |-> NotJson],
    [cell |-> "{\"timestamp\":\"T\"", top |-> NotJson],
    [cell |-> "{\"timestamp\":\"T\",}", top |-> NotJson],
    [cell |-> "{\"timestamp\":\"T\"} x", top |-> NotJson],
    [cell |-> "255", top |-> PosInt(<<2, 5, 5>>)],
    [cell |-> "null", top |-> Null],
    [cell |-> "[1]", top |-> Arr(<<PosInt(<<1>>)>>)],
    [cell |-> "\"SegmentRegister base: 8\"", top |-> Str("SegmentRegister base: 8")],
    [cell |-> " { \"timestamp\" : \"T\", \"level\":\"INFO\",\n\"target\":\"mod\", \"fields\": { \"count\" : 255 , \"message\":\"hi\" } } ",
     top |-> FullEntry(Obj(<<Entry("count", PosInt(<<2, 5, 5>>)),
                             Entry("message", Str("hi"))>>))],
    [cell |-> "{\"timestamp\":\"T\",\"level\":\"INFO\",\"target\":\"mod\",\"fields\":{\"a\":1,\"message\":\"hi\",\"a\":2}}",
     top |-> FullEntry(Obj(<<Entry("a", PosInt(<<2>>)),
                             Entry("message", Str("hi"))>>))] }

\* A cell and the entry it was written from.
MsgInputs ==
  {[cell |-> Display(FullEntry(f)), top |-> FullEntry(f)] : f \in FieldsValues}
    \cup {[cell |-> Display(e), top |-> e] : e \in DefectiveEntries}
    \cup RawCells

InitMsg ==
  /\ pc = "input"
  /\ arg \in MsgInputs
  /\ ret = ""
  /\ NoFile

CallProcessMessage ==
  /\ pc = "input"
  /\ pc' = "processed"
  /\ ret' = process_message(arg.cell)
  /\ UNCHANGED <<arg, mainVars>>

NextMsg == CallProcessMessage

SpecMsg == InitMsg /\ [][NextMsg]_vars

-----------------------------------------------------------------------------
(* What the claims about process_message speak of                           *)

\* The member of the entry the cell was written from, Null when missing.
HasMember(top, key) == top.t = "obj" /\ \E i \in 1..Len(top.m) : top.m[i].k = key

Member(top, key) == top.m[CHOOSE i \in 1..Len(top.m) : top.m[i].k = key].v

HasStringMember(top, key) == HasMember(top, key) /\ Member(top, key).t = "str"

\* The cell is an entry with its four required members.
WellFormed(top) ==
  /\ HasStringMember(top, "timestamp")
  /\ HasStringMember(top, "level")
  /\ HasStringMember(top, "target")
  /\ HasMember(top, "fields")

HeaderOf(top) ==
  "[" \o Member(top, "timestamp").s \o "][" \o Member(top, "level").s \o "]["
  \o Member(top, "target").s \o "] "

\* fields is an object with a string message.
HasMessage(top) ==
  WellFormed(top) /\ HasStringMember(Member(top, "fields"), "message")

IsNotMessage(e) == e.k # "message"

\* The members of fields other than message, in the order they are written.
OtherFields(top) == SelectSeq(Member(top, "fields").m, IsNotMessage)

\* C1: for a non-empty cell, when JSON decoding fails or the decoded value
\* lacks timestamp, level or target as a string or lacks fields, the result
\* of process_message is the cell's text itself.
C1_FallbackToRawText ==
  (pc = "processed" /\ arg.cell # "" /\ (arg.top = NotJson \/ ~WellFormed(arg.top)))
    => ret = arg.cell

\* A cell that is cut short, and an entry without target, have been processed.
C1_Witness ==
  /\ pc = "processed"
  /\ \/ arg.cell = "{\"timestamp\":\"T\""
     \/ arg.cell = "{\"timestamp\":\"T\",\"level\":\"INFO\",\"fields\":{\"message\":\"hi\",\"count\":255}}"
  /\ ret = arg.cell

\* C2: for an entry whose fields is an object with a string message, the
\* output is "[timestamp][level][target] ", the message, then one fragment
\* " key=..." for each key of fields other than message, in the order of
\* the keys in the input, and none for message.
C2_HeaderMessageFragments ==
  (pc = "processed" /\ arg.top # NotJson /\ HasMessage(arg.top)) =>
    LET others == OtherFields(arg.top)
        frags == [i \in 1..Len(others) |-> field_fragment(others[i].k, others[i].v)]
    IN  /\ ret = HeaderOf(arg.top) \o Member(Member(arg.top, "fields"), "message").s
                 \o ConcatAll(frags)
        /\ \A i \in 1..Len(others) :
             /\ StartsWithAt(frags[i], 1, " " \o others[i].k \o "=")
             /\ ~Contains(SubSeq(frags[i], 2, Len(frags[i])), " " \o others[i].k \o "=")
        /\ arg.cell = "{\"timestamp\":\"T\",\"level\":\"INFO\",\"target\":\"mod\",\"fields\":{\"message\":\"hi\",\"count\":255}}"
             => ret = "[T][INFO][mod] hi count=0xff"

\* An entry whose message stands between two other fields has been processed.
C2_Witness ==
  /\ pc = "processed"
  /\ arg.cell = "{\"timestamp\":\"T\",\"level\":\"INFO\",\"target\":\"mod\",\"fields\":{\"raw_exit\":\"tdx_tdg_vp_enter_exit_info rax: 10, rcx: 255\",\"message\":\"hi\",\"count\":255}}"
  /\ ret = "[T][INFO][mod] hi raw_exit=\"tdx_tdg_vp_enter_exit_info rax: 0xa, rcx: 0xff\" count=0xff"

\* The fragment of a field that went through Transformer C.
SegmentRegisterFragment(e) ==
  " " \o e.k \o "=\"" \o transform_segment_register(e.v.s) \o "\""

HasSegmentRegisterMarker(e) ==
  e.v.t = "str" /\ Contains(e.v.s, "SegmentRegister")

\* The output is the header, the message and frags.
OutputIs(frags) ==
  ret = HeaderOf(arg.top) \o Member(Member(arg.top, "fields"), "message").s
        \o ConcatAll(frags)

\* C3 as claimed: in the loop every field whose value is a string holding
\* the marker SegmentRegister is rewritten by Transformer C, whatever its
\* key, raw_exit and gprs included.
C3_SegmentRegisterAnyKey ==
  (pc = "processed" /\ arg.top # NotJson /\ HasMessage(arg.top)) =>
    LET others == OtherFields(arg.top)
        frags == [i \in 1..Len(others) |-> field_fragment(others[i].k, others[i].v)]
    IN  /\ OutputIs(frags)
        /\ \A i \in 1..Len(others) :
             HasSegmentRegisterMarker(others[i])
               => frags[i] = SegmentRegisterFragment(others[i])

\* C3 as amended: in the loop every field whose key is neither raw_exit nor
\* gprs and whose value is a string holding the marker SegmentRegister is
\* rewritten by Transformer C (base: 8 becomes base: 0x8); a raw_exit or
\* gprs string without its own marker is written as its JSON text,
\* unchanged, even when it holds the marker SegmentRegister.
C3_SegmentRegisterOtherKeys ==
  (pc = "processed" /\ arg.top # NotJson /\ HasMessage(arg.top)) =>
    LET others == OtherFields(arg.top)
        frags == [i \in 1..Len(others) |-> field_fragment(others[i].k, others[i].v)]
    IN  /\ OutputIs(frags)
        /\ \A i \in 1..Len(others) :
             LET e == others[i]
             IN  /\ (HasSegmentRegisterMarker(e) /\ e.k \notin {"raw_exit", "gprs"})
                      => frags[i] = SegmentRegisterFragment(e)
                 /\ (e = Entry("cs", Str("SegmentRegister base: 8")))
                      => frags[i] = " cs=\"SegmentRegister base: 0x8\""
                 /\ (/\ e.v.t = "str"
                     /\ \/ e.k = "raw_exit" /\ ~Contains(e.v.s, "tdx_tdg_vp_enter_exit_info")
                        \/ e.k = "gprs" /\ ~Contains(e.v.s, "TdxL2EnterGuestState"))
                      => frags[i] = " " \o e.k \o "=" \o Quoted(e.v.s)

\* A segment register under the key cs and one under the key raw_exit have
\* been processed in one entry.
C3_Witness ==
  /\ pc = "processed"
  /\ arg.cell = "{\"timestamp\":\"T\",\"level\":\"INFO\",\"target\":\"mod\",\"fields\":{\"message\":\"hi\",\"cs\":\"SegmentRegister base: 8\",\"raw_exit\":\"SegmentRegister base: 8\"}}"
  /\ ret = "[T][INFO][mod] hi cs=\"SegmentRegister base: 0x8\" raw_exit=\"SegmentRegister base: 8\""

\* C6: for an entry with its four required members whose fields is no
\* object, or an object without a string message, the output is the header
\* and the default JSON text of the whole fields value, nothing in it
\* converted; the row is still emitted.
C6_DefaultRenderingOfFields ==
  (pc = "processed" /\ arg.top # NotJson /\ WellFormed(arg.top) /\ ~HasMessage(arg.top)) =>
    /\ ret = HeaderOf(arg.top) \o Display(Member(arg.top, "fields"))
    /\ ret # ""
    /\ Member(arg.top, "fields") = Obj(<<Entry("count", PosInt(<<2, 5, 5>>))>>)
         => ret = "[T][INFO][mod] {\"count\":255}"
    /\ Member(arg.top, "fields") = Obj(<<Entry("message", PosInt(<<5>>)),
                                        Entry("cs", Str("SegmentRegister base: 8"))>>)
         => ret = "[T][INFO][mod] {\"message\":5,\"cs\":\"SegmentRegister base: 8\"}"
    /\ Member(arg.top, "fields") = Null => ret = "[T][INFO][mod] null"

\* An entry whose message is a number has been processed.
C6_Witness ==
  /\ pc = "processed"
  /\ arg.cell = "{\"timestamp\":\"T\",\"level\":\"INFO\",\"target\":\"mod\",\"fields\":{\"message\":5,\"cs\":\"SegmentRegister base: 8\"}}"
  /\ ret = "[T][INFO][mod] {\"message\":5,\"cs\":\"SegmentRegister base: 8\"}"

-----------------------------------------------------------------------------
(* main: the loop over the records of the CSV file, specification Spec      *)

MaxRows == 3

\* The header rows: the column first, second, or missing.
HeaderRows ==
  { <<"ExtractedMessage">>, <<"Timestamp", "ExtractedMessage">>,
    <<"Timestamp", "Level">> }

\* A record the reader yields is [err, fields]: an error (text that is not
\* UTF-8), or the fields of one row. The reader is flexible: a row may have
\* fewer or more fields than the header.
ReadError == [err |-> TRUE, fields |-> <<>>]

Row(fields) == [err |-> FALSE, fields |-> fields]

RecordPool ==
  { Row(<<"t1", "{\"timestamp\":\"T\",\"level\":\"INFO\",\"target\":\"mod\",\"fields\":{\"message\":\"hi\",\"count\":255}}">>),
    Row(<<"t2", "not json">>),
    Row(<<"t3", "">>),
    Row(<<"t4">>),
    Row(<<"", "{\"timestamp\":\"T\",\"level\":\"INFO\",\"target\":\"mod\",\"fields\":null}", "x">>),
    ReadError }

\* headers.iter().position(|h| h == "ExtractedMessage"), counted from 1;
\* 0 when no header is the column.
position(hs) ==
  LET at == {i \in 1..Len(hs) : hs[i] = "ExtractedMessage"}
  IN  IF at = {} THEN 0 ELSE Min(at)

\* StringRecord::get
record_get(rec, idx) ==
  IF idx <= Len(rec.fields) THEN Some(rec.fields[idx]) ELSE None

\* print_nonempty without the test: an empty line for an empty output.
print_always(out, output) == Append(out, output)

\* if !output.is_empty() { println!("{}", output) }
print_nonempty(out, output) == IF output # "" THEN Append(out, output) ELSE out

Init ==
  /\ pc = "start"
  /\ arg = ""
  /\ ret = ""
  /\ headers \in HeaderRows
  /\ records \in SeqsUpTo(RecordPool, MaxRows)
  /\ message_idx = 0
  /\ pos = 0
  /\ stdout = <<>>

\* File::open fails: main returns the error.
OpenFails ==
  /\ pc = "start"
  /\ pc' = "failed"
  /\ UNCHANGED <<arg, ret, mainVars>>

\* The header row is read and holds the column.
FindColumn ==
  /\ pc = "start"
  /\ position(headers) # 0
  /\ message_idx' = position(headers)
  /\ pc' = "loop"
  /\ UNCHANGED <<arg, ret, headers, records, pos, stdout>>

\* The header row holds no ExtractedMessage column: main returns the error.
NoColumn ==
  /\ pc = "start"
  /\ position(headers) = 0
  /\ pc' = "failed"
  /\ UNCHANGED <<arg, ret, mainVars>>

\* One pass of the loop over a record that was read.
ProcessRecord ==
  /\ pc = "loop"
  /\ pos < Len(records)
  /\ ~records[pos + 1].err
  /\ LET message_field == record_get(records[pos + 1], message_idx)
     IN  IF message_field.some
         THEN /\ arg' = message_field.v
              /\ ret' = process_message(message_field.v)
              /\ stdout' = print_nonempty(stdout, process_message(message_field.v))
         ELSE UNCHANGED <<arg, ret, stdout>>
  /\ pos' = pos + 1
  /\ UNCHANGED <<pc, headers, records, message_idx>>

\* let record = result?; on a record that cannot be read main returns.
RecordFails ==
  /\ pc = "loop"
  /\ pos < Len(records)
  /\ records[pos + 1].err
  /\ pc' = "failed"
  /\ UNCHANGED <<arg, ret, mainVars>>

\* The records are exhausted: Ok(()).
Finish ==
  /\ pc = "loop"
  /\ pos = Len(records)
  /\ pc' = "done"
  /\ UNCHANGED <<arg, ret, mainVars>>

Next ==
  \/ OpenFails
  \/ FindColumn
  \/ NoColumn
  \/ ProcessRecord
  \/ RecordFails
  \/ Finish

Spec == Init /\ [][Next]_vars

\* The cell of a row in the column, and whether the row has one.
HasCell(rec) == message_idx <= Len(rec.fields)

CellOf(rec) == rec.fields[message_idx]

\* The rows among the first n whose cell is there and not empty, in order.
RECURSIVE RowsWithText(_)
RowsWithText(n) ==
  IF n = 0 THEN <<>>
  ELSE RowsWithText(n - 1)
       \o (IF HasCell(records[n]) /\ CellOf(records[n]) # "" THEN <<n>> ELSE <<>>)

EmptyCells(n) == {i \in 1..n : HasCell(records[i]) /\ CellOf(records[i]) = ""}

MissingCells(n) == {i \in 1..n : ~HasCell(records[i])}

\* The lines printed are, in order, the transformations of the rows among
\* the first pos whose cell is there and not empty.
OneLinePerRowWithText ==
  /\ Len(stdout) = Len(RowsWithText(pos))
  /\ \A i \in 1..Len(stdout) :
       stdout[i] = process_message(CellOf(records[RowsWithText(pos)[i]]))

\* C4 as claimed: when the run has processed its rows to completion, the
\* lines are one per row whose cell is not empty, in the order of the rows;
\* their number is the number of rows less the rows with an empty cell, and
\* no row but one with an empty cell is suppressed.
C4_OneLinePerNonEmptyRow ==
  pc = "done" =>
    /\ OneLinePerRowWithText
    /\ Len(stdout) = Len(records) - Cardinality(EmptyCells(Len(records)))

\* C4 as amended: the same, the suppressed rows being those whose cell is
\* empty and those that have no such cell (a row with fewer fields than the
\* column's index, which the flexible reader yields); it holds after every
\* pass of the loop for the rows read so far.
C4_OneLinePerRowWithCellText ==
  pc \in {"loop", "done", "failed"} =>
    /\ OneLinePerRowWithText
    /\ Len(stdout) = pos - Cardinality(EmptyCells(pos))
                         - Cardinality(MissingCells(pos))

\* A run has ended over a row that printed, a row with an empty cell and a
\* row without the cell.
C4_Witness ==
  /\ pc = "done"
  /\ message_idx = 2
  /\ Len(records) = 3
  /\ Len(stdout) = 1
  /\ EmptyCells(3) # {}
  /\ MissingCells(3) # {}

=============================================================================
